---- MODULE Spec2Model ----
(***************************************************************************)
(* TerraFin cost calculator: plan parser, Azure pricing client with its    *)
(* time-bounded cache, resource handlers and the cost aggregator.          *)
(*                                                                         *)
(* Conventions of the translation from Python:                             *)
(*   - a dict is a function whose DOMAIN is the set of keys present; a key *)
(*     whose value is None (JSON null) is modelled as an absent key, except*)
(*     for disk_size_gb, where null and absent behave differently;         *)
(*   - Optional[float] is None or Float(n);                                *)
(*   - money is an integer number of micro-dollars (1 USD = 1000000), so   *)
(*     that every price table entry and every product is exact;            *)
(*   - time is an integer number of half hours;                            *)
(*   - a call's outcome is Ok(v) (returned v) or Raise(e) (raised e).      *)
(***************************************************************************)
EXTENDS Integers, Sequences, FiniteSets, TLC

VARIABLES
    plan_file,          \* the document at PlanParser.plan_file (on disk)
    plan_data,          \* PlanParser.plan_data
    cost_threshold,     \* CostCalculator.cost_threshold
    cache,              \* AzurePricingClient._cache
    cache_timestamps,   \* AzurePricingClient._cache_timestamps
    now,                \* datetime.now()
    ret,                \* the last operation called and its outcome
    lookups,            \* history of the pricing lookups: what each one did
    cleared,            \* clear_cache was called since the last lookup
    breakdown,          \* the CostBreakdown calculate_costs returned last
    trace,              \* what the last calculate_costs did with each resource
    pricing_api         \* what the pricing service answers, by service name

vars == <<plan_file, plan_data, cost_threshold, cache, cache_timestamps,
          now, ret, lookups, cleared, breakdown, trace, pricing_api>>

----------------------------------------------------------------------------
(* Python values *)

None == [tag |-> "None"]
Float(n) == [tag |-> "float", v |-> n]
Ok(v) == [tag |-> "ok", v |-> v]
Raise(e) == [tag |-> "raise", v |-> e]

EmptyDict == << >>

\* dict.get(k, default)
Get(d, k, default) == IF k \in DOMAIN d THEN d[k] ELSE default

\* d[k] = v
Put(d, k, v) == [x \in (DOMAIN d) \cup {k} |-> IF x = k THEN v ELSE d[x]]

Range(s) == {s[i] : i \in DOMAIN s}

----------------------------------------------------------------------------
(* Bounds of the model *)

MaxPlanLen == 2     \* resource changes in a plan document
MaxTime == 3        \* the clock stops at this many half hours
MaxLookups == 2     \* pricing lookups recorded in the history

----------------------------------------------------------------------------
(* plan_parser.py *)

\* The plan document as a file: absent, not JSON, or a JSON object (data).
MissingFile == [kind |-> "missing", data |-> EmptyDict]
MalformedFile == [kind |-> "malformed", data |-> EmptyDict]
JsonFile(doc) == [kind |-> "json", data |-> doc]

\* One entry of resource_changes.  The address is "type.name"; the name is
\* the entry's position, so that addresses are unique within a plan.
Change(i, type, actions, after) ==
    [address |-> <<type, i>>, type |-> type, name |-> i,
     change |-> [actions |-> actions, after |-> after]]

\* PlanParser.load_plan: the outcome and the new plan_data
load_plan(file, old_data) ==
    CASE file.kind = "missing" ->
            [out |-> Raise("FileNotFoundError"), plan_data |-> old_data]
      [] file.kind = "malformed" ->
            [out |-> Raise("JSONDecodeError"), plan_data |-> old_data]
      [] OTHER ->
            [out |-> Ok(None), plan_data |-> file.data]

\* `not self.plan_data`: None and the empty dict are both falsy
not_plan_data_empty_only(data) == data # None /\ DOMAIN data = {}

not_plan_data(data) == data = None \/ DOMAIN data = {}

\* the action lists get_resource_changes keeps
kept_actions(actions) == actions \in {<<"create">>, <<"update">>}

ExtractedKeys == {"location", "sku", "size", "tier", "capacity",
                  "account_type", "account_replication_type"}

\* PlanParser._extract_resource_config
_extract_resource_config(change) ==
    LET after_values == Get(Get(change, "change", EmptyDict), "after", EmptyDict)
        present == ExtractedKeys \cap DOMAIN after_values
    IN  [k \in {"type", "name", "address", "raw_values"} \cup present |->
            CASE k = "type" -> Get(change, "type", "")
              [] k = "name" -> Get(change, "name", "")
              [] k = "address" -> Get(change, "address", "")
              [] k = "raw_values" -> after_values
              [] OTHER -> after_values[k]]

RECURSIVE extract_kept(_)
extract_kept(changes) ==
    IF changes = << >> THEN << >>
    ELSE LET change == Head(changes)
             actions == Get(Get(change, "change", EmptyDict), "actions", None)
         IN  IF kept_actions(actions)
             THEN <<_extract_resource_config(change)>> \o extract_kept(Tail(changes))
             ELSE extract_kept(Tail(changes))

\* PlanParser.get_resource_changes
get_resource_changes(data) ==
    IF not_plan_data(data)
    THEN Raise("ValueError")
    ELSE IF "resource_changes" \in DOMAIN data
         THEN Ok(extract_kept(data["resource_changes"]))
         ELSE Ok(<< >>)

\* PlanParser.get_resource_count
get_resource_count(data) ==
    IF not_plan_data(data)
    THEN Raise("ValueError")
    ELSE LET r == get_resource_changes(data)
         IN  IF r.tag = "ok" THEN Ok(Len(r.v)) ELSE r

\* PlanParser.get_resource_types
get_resource_types(data) ==
    IF not_plan_data(data)
    THEN Raise("ValueError")
    ELSE LET r == get_resource_changes(data)
         IN  IF r.tag = "ok" THEN Ok({r.v[i]["type"] : i \in DOMAIN r.v}) ELSE r


----------------------------------------------------------------------------
(* azure_pricing.py *)

\* CACHE_DURATION = timedelta(hours=1), in half hours
CACHE_DURATION == 2

\* Standard pricing tiers for common resources, in micro-dollars
VM_PRICING ==
    ("Standard_D2s_v3" :> 96000) @@ ("Standard_D4s_v3" :> 192000) @@
    ("Standard_D8s_v3" :> 384000)

STORAGE_PRICING ==
    ("Standard_LRS" :> 18400) @@ ("Standard_GRS" :> 36800) @@
    ("Premium_LRS" :> 150000) @@ ("Premium_ZRS" :> 175000)

DISK_PRICING ==
    ("Standard_LRS" :>
        (("P4" :> 5280000) @@ ("P6" :> 10210000) @@ ("P10" :> 19710000) @@
         ("P15" :> 38440000) @@ ("P20" :> 73220000))) @@
    ("Premium_LRS" :>
        (("P4" :> 15840000) @@ ("P6" :> 30630000) @@ ("P10" :> 59130000) @@
         ("P15" :> 115320000) @@ ("P20" :> 219660000)))

\* the quote the three lookups build from a static table price
StaticQuote(price) ==
    [retailPrice |-> price, unitPrice |-> price,
     currencyCode |-> "USD", type |-> "Consumption"]

\* an item of the pricing service's response
Item(price) ==
    [retailPrice |-> price, unitPrice |-> price, currencyCode |-> "USD"]

\* what one remote call (session.get, raise_for_status, json) produces
RaiseResponse == [tag |-> "raise", Items |-> << >>]
ItemsResponse(items) == [tag |-> "ok", Items |-> items]

\* `if price_data:` on an Optional[dict]
truthy_dict(d) == d # None /\ DOMAIN d # {}

\* filters are the keyword arguments in the order the caller wrote them:
\* a sequence of <<name, value>> pairs with distinct names
FilterNames(filters) == {filters[i][1] : i \in DOMAIN filters}

FilterValue(filters, name) ==
    filters[CHOOSE i \in DOMAIN filters : filters[i][1] = name][2]

\* the names of the filters in sorted() order
SortedFilterNames == <<"armRegionName", "serviceName", "skuName", "tierName">>

\* "|".join(f"{k}={v}" for k, v in sorted(filters.items())): the pairs in
\* the order of their names
cache_key_unsorted(filters) == filters

cache_key(filters) ==
    LET names == SelectSeq(SortedFilterNames,
                           LAMBDA n : n \in FilterNames(filters))
    IN  [i \in DOMAIN names |-> <<names[i], FilterValue(filters, names[i])>>]

\* `age < self.CACHE_DURATION` for an entry stamped at time stamp
fresh_inclusive(stamp, t) == t - stamp <= CACHE_DURATION

fresh(stamp, t) == t - stamp < CACHE_DURATION

\* self._session.get(BASE_URL, params): the pricing service answers a request
\* by the service name its filter asks for
session_get(service, filters) == service[FilterValue(filters, "serviceName")]

\* AzurePricingClient._fetch_price at time t, against the pricing service
\* `service`.  remote tells whether the remote call was issued.
_fetch_price_caches_empty(c, s, t, filters, service) ==
    LET key == cache_key(filters)
        resp == session_get(service, filters)
    IN
    IF key \in DOMAIN c /\ fresh(s[key], t)
    THEN [out |-> Ok(c[key]), cache |-> c, stamps |-> s, remote |-> FALSE]
    ELSE IF resp.tag = "raise"
    THEN [out |-> Raise("RequestException"), cache |-> c, stamps |-> s,
          remote |-> TRUE]
    ELSE IF resp.Items # << >>
    THEN [out |-> Ok(resp.Items[1]), cache |-> Put(c, key, resp.Items[1]),
          stamps |-> Put(s, key, t), remote |-> TRUE]
    ELSE [out |-> Ok(None), cache |-> Put(c, key, None),
          stamps |-> Put(s, key, t), remote |-> TRUE]

_fetch_price(c, s, t, filters, service) ==
    LET key == cache_key(filters)
        resp == session_get(service, filters)
    IN
    IF key \in DOMAIN c /\ fresh(s[key], t)
    THEN [out |-> Ok(c[key]), cache |-> c, stamps |-> s, remote |-> FALSE]
    ELSE IF resp.tag = "raise"
    THEN [out |-> Raise("RequestException"), cache |-> c, stamps |-> s,
          remote |-> TRUE]
    ELSE IF resp.Items # << >>
    THEN [out |-> Ok(resp.Items[1]), cache |-> Put(c, key, resp.Items[1]),
          stamps |-> Put(s, key, t), remote |-> TRUE]
    ELSE [out |-> Ok(None), cache |-> c, stamps |-> s, remote |-> TRUE]

\* the tail shared by the three lookups: try the API, return the quote when
\* there is one, None when there is none or the request raised
try_api_uncaught(c, s, t, filters, service) ==
    LET r == _fetch_price(c, s, t, filters, service) IN
    [out |-> IF r.out.tag = "ok"
             THEN (IF truthy_dict(r.out.v) THEN r.out.v ELSE None)
             ELSE r.out,
     cache |-> r.cache, stamps |-> r.stamps, remote |-> r.remote]

try_api(c, s, t, filters, service) ==
    LET r == _fetch_price(c, s, t, filters, service) IN
    [out |-> IF r.out.tag = "ok" /\ truthy_dict(r.out.v) THEN r.out.v ELSE None,
     cache |-> r.cache, stamps |-> r.stamps, remote |-> r.remote]

static_hit(c, s, price) ==
    [out |-> StaticQuote(price), cache |-> c, stamps |-> s, remote |-> FALSE]

\* the keyword arguments get_vm_price passes to _fetch_price
vm_filters(size, region) ==
    <<<<"serviceName", "Virtual Machines">>, <<"armRegionName", region>>,
      <<"skuName", size>>>>

\* AzurePricingClient.get_vm_price
get_vm_price_api_first(c, s, t, size, region, service) ==
    try_api(c, s, t, vm_filters(size, region), service)

get_vm_price(c, s, t, size, region, service) ==
    IF size \in DOMAIN VM_PRICING /\ VM_PRICING[size] # 0
    THEN static_hit(c, s, VM_PRICING[size])
    ELSE try_api(c, s, t, vm_filters(size, region), service)

\* the keyword arguments get_storage_price passes to _fetch_price
storage_filters(account_type, region) ==
    <<<<"serviceName", "Storage">>, <<"armRegionName", region>>,
      <<"skuName", account_type>>>>

\* AzurePricingClient.get_storage_price
get_storage_price(c, s, t, account_type, region, service) ==
    IF account_type \in DOMAIN STORAGE_PRICING /\ STORAGE_PRICING[account_type] # 0
    THEN static_hit(c, s, STORAGE_PRICING[account_type])
    ELSE try_api(c, s, t, storage_filters(account_type, region), service)

\* the disk tier ladder of get_managed_disk_price
disk_tier_exclusive(size_gb) ==
    IF size_gb < 32 THEN "P4"
    ELSE IF size_gb < 64 THEN "P6"
    ELSE IF size_gb < 128 THEN "P10"
    ELSE IF size_gb < 256 THEN "P15"
    ELSE "P20"

disk_tier(size_gb) ==
    IF size_gb <= 32 THEN "P4"
    ELSE IF size_gb <= 64 THEN "P6"
    ELSE IF size_gb <= 128 THEN "P10"
    ELSE IF size_gb <= 256 THEN "P15"
    ELSE "P20"

\* the keyword arguments get_managed_disk_price passes to _fetch_price
disk_filters(storage_type, tier, region) ==
    <<<<"serviceName", "Managed Disks">>, <<"armRegionName", region>>,
      <<"skuName", storage_type>>, <<"tierName", tier>>>>

\* AzurePricingClient.get_managed_disk_price
get_managed_disk_price(c, s, t, storage_type, size_gb, region, service) ==
    LET tier == disk_tier(size_gb)
        disk_prices == Get(DISK_PRICING, storage_type, EmptyDict)
    IN  IF tier \in DOMAIN disk_prices /\ disk_prices[tier] # 0
        THEN static_hit(c, s, disk_prices[tier])
        ELSE try_api(c, s, t, disk_filters(storage_type, tier, region), service)


\* ---- history of lookups ----

ResponseKind(resp) ==
    IF resp.tag = "raise" THEN "raise"
    ELSE IF resp.Items = << >> THEN "empty" ELSE "items"

\* the history entry of one lookup: the operation, the filters it passes to
\* _fetch_price, whether the static table answered it, when it ran, whether
\* it issued the remote call and what the call answered, what it returned,
\* and the resource it was made for (<< >> for a direct call)
Lookup(op, filters, static, t, r, service, after_clear, resource) ==
    LET resp == session_get(service, filters) IN
    [op |-> op, filters |-> filters, static |-> static, t |-> t,
     remote |-> r.remote,
     resp |-> IF r.remote THEN ResponseKind(resp) ELSE "none",
     item |-> IF r.remote /\ ResponseKind(resp) = "items"
              THEN resp.Items[1] ELSE None,
     out |-> r.out, after_clear |-> after_clear, resource |-> resource]

----------------------------------------------------------------------------
(* The pricing client on its own: lookups, clear_cache and the clock *)

VmSizes == {"Standard_D2s_v3", "Standard_B1s"}
Regions == {"eastus"}
StorageTypes == {"Standard_LRS", "Standard_ZRS"}
DiskTypes == {"Premium_LRS", "StandardSSD_LRS"}
DiskSizes == {64}

\* the answers of the pricing service: an error, no items, or one item
Responses ==
    {RaiseResponse, ItemsResponse(<< >>),
     ItemsResponse(<<Item(100000)>>), ItemsResponse(<<Item(20000)>>)}

\* a direct call to _fetch_price: the query of get_vm_price, its keywords
\* in another order
DirectFilters ==
    {<<<<"skuName", "Standard_B1s">>, <<"armRegionName", "eastus">>,
       <<"serviceName", "Virtual Machines">>>>}

ServiceNames == {"Virtual Machines", "Storage", "Managed Disks"}

\* a pricing service that answers every request with resp
Answering(resp) == [name \in ServiceNames |-> resp]

LookupStep(op, filters, static, r, resp) ==
    /\ Len(lookups) < MaxLookups
    /\ cache' = r.cache
    /\ cache_timestamps' = r.stamps
    /\ ret' = [op |-> op, out |-> r.out]
    /\ lookups' = Append(lookups, Lookup(op, filters, static, now, r,
                                         Answering(resp), cleared, << >>))
    /\ cleared' = FALSE
    /\ UNCHANGED <<plan_file, plan_data, cost_threshold, now, breakdown, trace,
                   pricing_api>>

GetVmPrice ==
    \E size \in VmSizes, region \in Regions, resp \in Responses :
        LookupStep("get_vm_price", vm_filters(size, region),
                   size \in DOMAIN VM_PRICING,
                   get_vm_price(cache, cache_timestamps, now, size, region,
                                Answering(resp)),
                   resp)

GetStoragePrice ==
    \E account_type \in StorageTypes, region \in Regions, resp \in Responses :
        LookupStep("get_storage_price", storage_filters(account_type, region),
                   account_type \in DOMAIN STORAGE_PRICING,
                   get_storage_price(cache, cache_timestamps, now,
                                     account_type, region, Answering(resp)),
                   resp)

GetManagedDiskPrice ==
    \E storage_type \in DiskTypes, size_gb \in DiskSizes, region \in Regions,
       resp \in Responses :
        LookupStep("get_managed_disk_price",
                   disk_filters(storage_type, disk_tier(size_gb), region),
                   storage_type \in DOMAIN DISK_PRICING,
                   get_managed_disk_price(cache, cache_timestamps, now,
                                          storage_type, size_gb, region,
                                          Answering(resp)),
                   resp)

FetchPrice ==
    \E filters \in DirectFilters, resp \in Responses :
        LookupStep("_fetch_price", filters, FALSE,
                   _fetch_price(cache, cache_timestamps, now, filters,
                                Answering(resp)),
                   resp)

\* AzurePricingClient.clear_cache
ClearCacheKeepsEntries ==
    /\ ret' = [op |-> "clear_cache", out |-> Ok(None)]
    /\ cleared' = TRUE
    /\ UNCHANGED <<plan_file, plan_data, cost_threshold, now, lookups,
                   breakdown, trace, pricing_api, cache, cache_timestamps>>

ClearCacheKeepsTimestamps ==
    /\ cache' = EmptyDict
    /\ ret' = [op |-> "clear_cache", out |-> Ok(None)]
    /\ cleared' = TRUE
    /\ UNCHANGED <<plan_file, plan_data, cost_threshold, now, lookups,
                   breakdown, trace, pricing_api, cache_timestamps>>

ClearCache ==
    /\ cache' = EmptyDict
    /\ cache_timestamps' = EmptyDict
    /\ ret' = [op |-> "clear_cache", out |-> Ok(None)]
    /\ cleared' = TRUE
    /\ UNCHANGED <<plan_file, plan_data, cost_threshold, now, lookups,
                   breakdown, trace, pricing_api>>

\* half an hour passes
Tick ==
    /\ now < MaxTime
    /\ now' = now + 1
    /\ UNCHANGED <<plan_file, plan_data, cost_threshold, cache,
                   cache_timestamps, ret, lookups, cleared, breakdown, trace,
                   pricing_api>>

NoCall == [op |-> "none", out |-> Ok(None)]

\* AzurePricingClient.__init__
InitPricing ==
    /\ plan_file = MissingFile
    /\ plan_data = None
    /\ cost_threshold = None
    /\ cache = EmptyDict
    /\ cache_timestamps = EmptyDict
    /\ now = 0
    /\ ret = NoCall
    /\ lookups = << >>
    /\ cleared = FALSE
    /\ breakdown = None
    /\ trace = << >>
    /\ pricing_api = Answering(ItemsResponse(<< >>))

NextPricing ==
    \/ GetVmPrice
    \/ GetStoragePrice
    \/ GetManagedDiskPrice
    \/ FetchPrice
    \/ ClearCache
    \/ Tick

SpecPricing == InitPricing /\ [][NextPricing]_vars

----------------------------------------------------------------------------
(* Properties of the pricing client, checked under SpecPricing *)

LastLookup == lookups[Len(lookups)]

\* two lookups pass the same filter parameters, whatever the keyword order
SameParameters(a, b) == Range(a.filters) = Range(b.filters)

RemoteCalls(a, b) ==
    (IF a.remote THEN 1 ELSE 0) + (IF b.remote THEN 1 ELSE 0)

\* lookups i < j pass the same parameters, both miss the static table and
\* are less than one cache window apart
SameQueryInWindow(i, j) ==
    /\ i < j
    /\ ~lookups[i].static /\ ~lookups[j].static
    /\ SameParameters(lookups[i], lookups[j])
    /\ lookups[j].t - lookups[i].t < CACHE_DURATION

NoClearBetween(i, j) == \A k \in (i + 1)..j : ~lookups[k].after_clear

\* C7 as stated: two lookups with identical filter parameters that both miss
\* the static table within one cache window issue at most one remote call.
C7_AtMostOneRemoteCall ==
    \A i, j \in DOMAIN lookups :
        SameQueryInWindow(i, j) => RemoteCalls(lookups[i], lookups[j]) <= 1

\* C7 amended: the same, provided the earlier lookup's remote call (if it
\* issued one) returned a non-empty item list and clear_cache was not called
\* between the two lookups; the later lookup then issues no remote call
\* unless the earlier one was itself answered from the cache.
C7_AtMostOneRemoteCallAfterSuccess ==
    \A i, j \in DOMAIN lookups :
        (/\ SameQueryInWindow(i, j)
         /\ lookups[i].resp \notin {"raise", "empty"}
         /\ NoClearBetween(i, j))
        => /\ RemoteCalls(lookups[i], lookups[j]) <= 1
           /\ lookups[i].remote => ~lookups[j].remote

\* two lookups in different keyword orders, the first fetched and cached,
\* the second answered from the cache within the window
C7_Witness ==
    /\ Len(lookups) = 2
    /\ SameQueryInWindow(1, 2)
    /\ lookups[1].filters # lookups[2].filters
    /\ lookups[1].resp = "items"
    /\ ~lookups[2].remote
    /\ lookups[2].t > lookups[1].t

\* the quote a lookup returned, None when it returned none or raised
ReturnedQuote(l) ==
    IF l.op = "_fetch_price"
    THEN (IF l.out.tag = "ok" THEN l.out.v ELSE None)
    ELSE l.out

\* the step is a lookup that misses the static table and whose cache key is k
IsLookupOfKey(k) ==
    /\ Len(lookups') = Len(lookups) + 1
    /\ ~LastLookup'.static
    /\ Len(k) = Len(LastLookup'.filters)
    /\ Range(k) = Range(LastLookup'.filters)

\* C8: an entry whose age has reached CACHE_DURATION is not returned: the
\* lookup for its key issues a remote call and returns what the call
\* answered, and a call that returned an item replaces the entry's quote and
\* timestamp.
C8_ExpiredEntryRefreshed ==
    [][\A k \in DOMAIN cache :
         (now - cache_timestamps[k] >= CACHE_DURATION /\ IsLookupOfKey(k))
         => /\ LastLookup'.remote
            /\ ReturnedQuote(LastLookup') = LastLookup'.item
            /\ LastLookup'.resp = "items"
                 => /\ cache'[k] = LastLookup'.item
                    /\ cache_timestamps'[k] = now
            /\ LastLookup'.resp # "items"
                 => ReturnedQuote(LastLookup') = None]_vars

\* an entry cached at time 0 was looked up again exactly CACHE_DURATION
\* later and replaced by a different quote
C8_Witness ==
    /\ Len(lookups) = 2
    /\ SameParameters(lookups[1], lookups[2])
    /\ lookups[1].resp = "items" /\ lookups[2].resp = "items"
    /\ lookups[2].t - lookups[1].t = CACHE_DURATION
    /\ lookups[1].item # lookups[2].item
    /\ \E k \in DOMAIN cache :
          /\ Range(k) = Range(lookups[2].filters)
          /\ cache[k] = lookups[2].item
          /\ cache_timestamps[k] = lookups[2].t

PublicLookups == {"get_vm_price", "get_storage_price", "get_managed_disk_price"}

\* the static table price of what a lookup asks for
InStaticTable(l) ==
    LET sku == FilterValue(l.filters, "skuName") IN
    CASE l.op = "get_vm_price" -> sku \in DOMAIN VM_PRICING
      [] l.op = "get_storage_price" -> sku \in DOMAIN STORAGE_PRICING
      [] l.op = "get_managed_disk_price" ->
            /\ sku \in DOMAIN DISK_PRICING
            /\ FilterValue(l.filters, "tierName") \in DOMAIN DISK_PRICING[sku]
      [] OTHER -> FALSE

StaticTablePrice(l) ==
    LET sku == FilterValue(l.filters, "skuName") IN
    CASE l.op = "get_vm_price" -> VM_PRICING[sku]
      [] l.op = "get_storage_price" -> STORAGE_PRICING[sku]
      [] l.op = "get_managed_disk_price" ->
            DISK_PRICING[sku][FilterValue(l.filters, "tierName")]

----------------------------------------------------------------------------
(* resource_handlers.py *)

\* JSON values of disk_size_gb: null, or an integer
JNull == [tag |-> "null"]
JInt(n) == [tag |-> "int", v |-> n]

\* a handler's result: what calculate_cost returned or raised, the cache it
\* left and the lookups it made
Handled(out, c, s, ls) ==
    [out |-> out, cache |-> c, stamps |-> s, lookups |-> ls]

raw_values_of(resource_config) == Get(resource_config, "raw_values", EmptyDict)

\* ResourceHandler._get_location: a location is present
has_location(resource_config) ==
    \/ "location" \in DOMAIN raw_values_of(resource_config)
    \/ "location" \in DOMAIN resource_config

\* ResourceHandler._get_location
_get_location(resource_config) ==
    IF "location" \in DOMAIN raw_values_of(resource_config)
    THEN raw_values_of(resource_config)["location"]
    ELSE resource_config["location"]

\* average hours per month (hourly_rate * 730)
HoursPerMonth == 730

\* Default OS disk size
DefaultOsDiskGb == 128

\* VirtualMachineHandler.calculate_cost
VirtualMachineHandler(c, s, t, resource_config, service) ==
    LET raw_values == raw_values_of(resource_config)
        address == resource_config["address"]
    IN
    IF ~("size" \in DOMAIN raw_values /\ has_location(resource_config))
    THEN Handled(Ok(None), c, s, << >>)
    ELSE
    LET size == raw_values["size"]
        location == _get_location(resource_config)
        vm == get_vm_price(c, s, t, size, location, service)
        l1 == Lookup("get_vm_price", vm_filters(size, location),
                     size \in DOMAIN VM_PRICING, t, vm, service, FALSE,
                     address)
    IN
    IF ~truthy_dict(vm.out)
    THEN Handled(Ok(None), vm.cache, vm.stamps, <<l1>>)
    ELSE
    LET monthly_cost == Get(vm.out, "retailPrice", 0) * HoursPerMonth
        os_disks == Get(raw_values, "os_disk", <<EmptyDict>>)
    IN
    IF os_disks = << >>
    THEN \* [0] raises IndexError, caught by the handler's own except
         Handled(Ok(None), vm.cache, vm.stamps, <<l1>>)
    ELSE
    LET os_disk == os_disks[1] IN
    IF "storage_account_type" \notin DOMAIN os_disk
    THEN Handled(Ok(Float(monthly_cost)), vm.cache, vm.stamps, <<l1>>)
    ELSE
    LET disk_type == os_disk["storage_account_type"]
        dp == get_managed_disk_price(vm.cache, vm.stamps, t, disk_type,
                                     DefaultOsDiskGb, location, service)
        l2 == Lookup("get_managed_disk_price",
                     disk_filters(disk_type, disk_tier(DefaultOsDiskGb), location),
                     disk_type \in DOMAIN DISK_PRICING, t, dp, service,
                     FALSE, address)
        disk_cost == IF truthy_dict(dp.out)
                     THEN Get(dp.out, "retailPrice", 0) ELSE 0
    IN  Handled(Ok(Float(monthly_cost + disk_cost)), dp.cache, dp.stamps,
                <<l1, l2>>)

\* f"{account_tier}_{replication_type}"
account_type_name_tier_only(account_tier, replication_type) ==
    CASE account_tier = "Standard" -> "Standard_LRS"
      [] account_tier = "Premium" -> "Premium_LRS"

account_type_name(account_tier, replication_type) ==
    CASE account_tier = "Standard" /\ replication_type = "LRS" -> "Standard_LRS"
      [] account_tier = "Standard" /\ replication_type = "GRS" -> "Standard_GRS"
      [] account_tier = "Standard" /\ replication_type = "ZRS" -> "Standard_ZRS"
      [] account_tier = "Premium" /\ replication_type = "LRS" -> "Premium_LRS"
      [] account_tier = "Premium" /\ replication_type = "GRS" -> "Premium_GRS"
      [] account_tier = "Premium" /\ replication_type = "ZRS" -> "Premium_ZRS"

\* estimated_gb = 100
EstimatedGb == 100

\* StorageAccountHandler.calculate_cost
StorageAccountHandler(c, s, t, resource_config, service) ==
    LET raw_values == raw_values_of(resource_config)
        address == resource_config["address"]
    IN
    IF ~(/\ "account_tier" \in DOMAIN raw_values
         /\ "account_replication_type" \in DOMAIN raw_values
         /\ has_location(resource_config))
    THEN Handled(Ok(None), c, s, << >>)
    ELSE
    LET account_type == account_type_name(raw_values["account_tier"],
                                          raw_values["account_replication_type"])
        location == _get_location(resource_config)
        sp == get_storage_price(c, s, t, account_type, location, service)
        l1 == Lookup("get_storage_price", storage_filters(account_type, location),
                     account_type \in DOMAIN STORAGE_PRICING, t, sp, service,
                     FALSE, address)
    IN
    IF ~truthy_dict(sp.out)
    THEN Handled(Ok(None), sp.cache, sp.stamps, <<l1>>)
    ELSE Handled(Ok(Float(Get(sp.out, "retailPrice", 0) * EstimatedGb)),
                 sp.cache, sp.stamps, <<l1>>)

\* ManagedDiskHandler.calculate_cost; int(None) raises TypeError before the
\* handler's try block
ManagedDiskHandler(c, s, t, resource_config, service) ==
    LET raw_values == raw_values_of(resource_config)
        address == resource_config["address"]
        size_value == Get(raw_values, "disk_size_gb", JInt(0))
    IN
    IF size_value = JNull
    THEN Handled(Raise("TypeError"), c, s, << >>)
    ELSE
    LET disk_size_gb == size_value.v IN
    IF ~(/\ "storage_account_type" \in DOMAIN raw_values
         /\ has_location(resource_config)
         /\ disk_size_gb # 0)
    THEN Handled(Ok(None), c, s, << >>)
    ELSE
    LET storage_type == raw_values["storage_account_type"]
        location == _get_location(resource_config)
        dp == get_managed_disk_price(c, s, t, storage_type, disk_size_gb,
                                     location, service)
        l1 == Lookup("get_managed_disk_price",
                     disk_filters(storage_type, disk_tier(disk_size_gb), location),
                     storage_type \in DOMAIN DISK_PRICING, t, dp, service,
                     FALSE, address)
    IN
    IF ~truthy_dict(dp.out)
    THEN Handled(Ok(None), dp.cache, dp.stamps, <<l1>>)
    ELSE Handled(Ok(Float(Get(dp.out, "retailPrice", 0))), dp.cache,
                 dp.stamps, <<l1>>)

\* NetworkInterfaceHandler, VirtualNetworkHandler, SubnetHandler,
\* ResourceGroupHandler, LogicAppActionHandler, LogicAppTriggerHandler
ZeroCostHandler(c, s, t, resource_config, service) ==
    Handled(Ok(Float(0)), c, s, << >>)

\* executions = 100000
Executions == 100000

\* cost_per_execution = 0.000125, in micro-dollars
CostPerExecution == 125

\* LogicAppHandler.calculate_cost
LogicAppHandler(c, s, t, resource_config, service) ==
    Handled(Ok(Float(Executions * CostPerExecution)), c, s, << >>)

\* JSON values of the sku block: a list of objects, or one object
JList(items) == [tag |-> "list", v |-> items]
JDict(d) == [tag |-> "dict", v |-> d]

\* str.upper() on the sku strings of the model
upper(str) ==
    CASE str = "b1" -> "B1"
      [] str = "b2" -> "B2"
      [] str = "b3" -> "B3"
      [] str = "p1v2" -> "P1V2"
      [] str = "P1v2" -> "P1V2"
      [] OTHER -> str

\* sku_prices of AppServicePlanHandler, in micro-dollars
sku_prices == ("B1" :> 54750000) @@ ("B2" :> 109500000) @@ ("B3" :> 218990000)

\* `if not sku` and `or` on d.get(key): an absent key (None) and "" are falsy
truthy_at(d, key) == key \in DOMAIN d /\ d[key] # ""

\* the sku AppServicePlanHandler resolves: << >> when it is None or "", else
\* <<sku>>
resolve_sku_name_first(raw_values) ==
    IF truthy_at(raw_values, "sku_name")
    THEN <<raw_values["sku_name"]>>
    ELSE IF "sku" \notin DOMAIN raw_values
    THEN << >>
    ELSE
    LET sku_block == raw_values["sku"]
        sku_info == IF sku_block.tag = "list" /\ sku_block.v # << >>
                    THEN JDict(sku_block.v[1]) ELSE sku_block
    IN  IF sku_info.tag # "dict" THEN << >>
        ELSE IF truthy_at(sku_info.v, "name")
        THEN <<sku_info.v["name"]>>
        ELSE IF truthy_at(sku_info.v, "size")
        THEN <<sku_info.v["size"]>>
        ELSE << >>

resolve_sku(raw_values) ==
    IF truthy_at(raw_values, "sku_name")
    THEN <<raw_values["sku_name"]>>
    ELSE IF "sku" \notin DOMAIN raw_values
    THEN << >>
    ELSE
    LET sku_block == raw_values["sku"]
        sku_info == IF sku_block.tag = "list" /\ sku_block.v # << >>
                    THEN JDict(sku_block.v[1]) ELSE sku_block
    IN  IF sku_info.tag # "dict" THEN << >>
        ELSE IF truthy_at(sku_info.v, "size")
        THEN <<sku_info.v["size"]>>
        ELSE IF truthy_at(sku_info.v, "name")
        THEN <<sku_info.v["name"]>>
        ELSE << >>

\* AppServicePlanHandler.calculate_cost
AppServicePlanHandler(c, s, t, resource_config, service) ==
    LET sku == resolve_sku(raw_values_of(resource_config)) IN
    IF ~(sku # << >> /\ has_location(resource_config))
    THEN Handled(Ok(None), c, s, << >>)
    ELSE LET monthly_cost == Get(sku_prices, upper(sku[1]), 0) IN
         IF monthly_cost # 0
         THEN Handled(Ok(Float(monthly_cost)), c, s, << >>)
         ELSE Handled(Ok(None), c, s, << >>)

\* Registry of resource handlers
RESOURCE_HANDLERS ==
    ("azurerm_virtual_machine" :> "VirtualMachineHandler") @@
    ("azurerm_windows_virtual_machine" :> "VirtualMachineHandler") @@
    ("azurerm_linux_virtual_machine" :> "VirtualMachineHandler") @@
    ("azurerm_storage_account" :> "StorageAccountHandler") @@
    ("azurerm_managed_disk" :> "ManagedDiskHandler") @@
    ("azurerm_network_interface" :> "NetworkInterfaceHandler") @@
    ("azurerm_virtual_network" :> "VirtualNetworkHandler") @@
    ("azurerm_subnet" :> "SubnetHandler") @@
    ("azurerm_resource_group" :> "ResourceGroupHandler") @@
    ("azurerm_logic_app_workflow" :> "LogicAppHandler") @@
    ("azurerm_logic_app_action_custom" :> "LogicAppActionHandler") @@
    ("azurerm_logic_app_trigger_custom" :> "LogicAppTriggerHandler") @@
    ("azurerm_service_plan" :> "AppServicePlanHandler") @@
    ("azurerm_app_service_plan" :> "AppServicePlanHandler")

\* get_handler: the handler class of a resource type, "" (falsy) for none
get_handler_default_zero(resource_type) ==
    Get(RESOURCE_HANDLERS, resource_type, "ResourceGroupHandler")

get_handler(resource_type) == Get(RESOURCE_HANDLERS, resource_type, "")

\* handler.calculate_cost(resource), by handler class
calculate_cost(handler, c, s, t, resource_config, service) ==
    CASE handler = "VirtualMachineHandler" ->
            VirtualMachineHandler(c, s, t, resource_config, service)
      [] handler = "StorageAccountHandler" ->
            StorageAccountHandler(c, s, t, resource_config, service)
      [] handler = "ManagedDiskHandler" ->
            ManagedDiskHandler(c, s, t, resource_config, service)
      [] handler = "LogicAppHandler" ->
            LogicAppHandler(c, s, t, resource_config, service)
      [] handler = "AppServicePlanHandler" ->
            AppServicePlanHandler(c, s, t, resource_config, service)
      [] OTHER ->
            ZeroCostHandler(c, s, t, resource_config, service)

----------------------------------------------------------------------------
(* calculator.py *)

\* CostCalculator._extract_cost_details
_extract_cost_details(resource) ==
    [k \in {"location", "size", "sku", "tier"} \cap DOMAIN resource |->
        resource[k]]

ResourceCost(resource, resource_type, monthly_cost) ==
    [address |-> Get(resource, "address", ""),
     type |-> resource_type,
     name |-> Get(resource, "name", ""),
     monthly_cost |-> monthly_cost,
     details |-> _extract_cost_details(resource)]

\* the locals of calculate_costs before the loop; error is the exception
\* that left the loop ("" while there is none)
LoopStart(c, s) ==
    [resource_costs |-> << >>, unknown_costs |-> << >>, total_cost |-> 0,
     cache |-> c, stamps |-> s, lookups |-> << >>, trace |-> << >>,
     error |-> ""]

\* what the rule of a resource did: "none" (no rule), "cost", "absent",
\* "raise"
Traced(resource, rule) ==
    [address |-> Get(resource, "address", ""), rule |-> rule]

\* unknown_costs.append(resource.get('address', 'Unknown resource'))
mark_unknown(acc, resource, rule) ==
    [acc EXCEPT
        !.unknown_costs = Append(@, Get(resource, "address", "Unknown resource")),
        !.trace = Append(@, Traced(resource, rule))]

\* the branch `monthly_cost is not None`: add to the total, append to
\* resource_costs
mark_known_total_dropped(acc, resource, resource_type, monthly_cost) ==
    [acc EXCEPT
        !.resource_costs = Append(@, ResourceCost(resource, resource_type, monthly_cost)),
        !.trace = Append(@, Traced(resource, "cost"))]

mark_known_and_unknown(acc, resource, resource_type, monthly_cost) ==
    [acc EXCEPT
        !.total_cost = @ + monthly_cost.v,
        !.resource_costs = Append(@, ResourceCost(resource, resource_type, monthly_cost)),
        !.unknown_costs = Append(@, Get(resource, "address", "Unknown resource")),
        !.trace = Append(@, Traced(resource, "cost"))]

mark_known_prepended(acc, resource, resource_type, monthly_cost) ==
    [acc EXCEPT
        !.total_cost = @ + monthly_cost.v,
        !.resource_costs = <<ResourceCost(resource, resource_type, monthly_cost)>> \o @,
        !.trace = Append(@, Traced(resource, "cost"))]

mark_known(acc, resource, resource_type, monthly_cost) ==
    [acc EXCEPT
        !.total_cost = @ + monthly_cost.v,
        !.resource_costs = Append(@, ResourceCost(resource, resource_type, monthly_cost)),
        !.trace = Append(@, Traced(resource, "cost"))]

\* the handler's effect on the pricing client, kept whatever it returned
after_rule(acc, h) ==
    [acc EXCEPT !.cache = h.cache, !.stamps = h.stamps,
                !.lookups = @ \o h.lookups]

\* the loop body once the rule h has run: the except clause, then
\* `if monthly_cost is not None`
record_truthy(acc, resource, resource_type, h) ==
    IF h.out.tag = "raise"
    THEN mark_unknown(after_rule(acc, h), resource, "raise")
    ELSE IF h.out.v # None /\ h.out.v.v # 0
    THEN mark_known(after_rule(acc, h), resource, resource_type, h.out.v)
    ELSE mark_unknown(after_rule(acc, h), resource, "absent")

record(acc, resource, resource_type, h) ==
    IF h.out.tag = "raise"
    THEN mark_unknown(after_rule(acc, h), resource, "raise")
    ELSE IF h.out.v # None
    THEN mark_known(after_rule(acc, h), resource, resource_type, h.out.v)
    ELSE mark_unknown(after_rule(acc, h), resource, "absent")

\* the body of the loop of calculate_costs for one resource
process_resource_uncaught(acc, t, resource, service) ==
    LET resource_type == Get(resource, "type", "")
        handler == get_handler(resource_type)
    IN
    IF handler = ""
    THEN mark_unknown(acc, resource, "none")
    ELSE
    LET h == calculate_cost(handler, acc.cache, acc.stamps, t, resource, service)
    IN
    IF h.out.tag = "raise"
    THEN [after_rule(acc, h) EXCEPT
            !.error = h.out.v,
            !.trace = Append(@, Traced(resource, "raise"))]
    ELSE record(acc, resource, resource_type, h)

process_resource(acc, t, resource, service) ==
    LET resource_type == Get(resource, "type", "")
        handler == get_handler(resource_type)
    IN
    IF handler = ""
    THEN mark_unknown(acc, resource, "none")
    ELSE record(acc, resource, resource_type,
            calculate_cost(handler, acc.cache, acc.stamps, t, resource, service))

\* the loop of calculate_costs from resource i on; an exception that leaves
\* the body ends it
RECURSIVE loop(_, _, _, _, _)
loop(acc, t, resource_changes, i, svc) ==
    IF i > Len(resource_changes) \/ acc.error # ""
    THEN acc
    ELSE loop(process_resource(acc, t, resource_changes[i], svc),
              t, resource_changes, i + 1, svc)

CostBreakdown(acc) ==
    [resources |-> acc.resource_costs,
     total_monthly_cost |-> acc.total_cost,
     unknown_costs |-> acc.unknown_costs]

\* what calculate_costs leaves behind once the loop has ended in acc
returned(plan, acc) ==
    IF acc.error # ""
    THEN [out |-> Raise(acc.error), plan_data |-> plan, acc |-> acc]
    ELSE [out |-> Ok(CostBreakdown(acc)), plan_data |-> plan, acc |-> acc]

\* CostCalculator.calculate_costs against the pricing service svc
calculate_costs(file, data, c, s, t, svc) ==
    LET loaded == load_plan(file, data) IN
    IF loaded.out.tag = "raise"
    THEN [out |-> loaded.out, plan_data |-> loaded.plan_data,
          acc |-> LoopStart(c, s)]
    ELSE
    LET resource_changes == get_resource_changes(loaded.plan_data) IN
    IF resource_changes.tag = "raise"
    THEN [out |-> resource_changes, plan_data |-> loaded.plan_data,
          acc |-> LoopStart(c, s)]
    ELSE returned(loaded.plan_data,
                  loop(LoopStart(c, s), t, resource_changes.v, 1, svc))

\* CostCalculator.validate_cost_threshold
validate_cost_threshold_strict(threshold, bd) ==
    IF threshold = None
    THEN TRUE
    ELSE bd.total_monthly_cost < threshold.v

validate_cost_threshold(threshold, bd) ==
    IF threshold = None
    THEN TRUE
    ELSE bd.total_monthly_cost <= threshold.v

----------------------------------------------------------------------------
(* The calculator on plan documents *)

\* the kinds of planned resources: a type and its "after" values
VmRemoteKind ==
    [type |-> "azurerm_linux_virtual_machine",
     after |-> [location |-> "eastus", size |-> "Standard_B1s"]]
VmOsDiskKind ==
    [type |-> "azurerm_linux_virtual_machine",
     after |-> [location |-> "eastus", size |-> "Standard_D2s_v3",
                os_disk |-> <<[storage_account_type |-> "StandardSSD_LRS"]>>]]
StorageRemoteKind ==
    [type |-> "azurerm_storage_account",
     after |-> [location |-> "eastus", account_tier |-> "Standard",
                account_replication_type |-> "ZRS"]]
DiskNullSizeKind ==
    [type |-> "azurerm_managed_disk",
     after |-> [location |-> "eastus", storage_account_type |-> "Premium_LRS",
                disk_size_gb |-> JNull]]
DiskStaticKind ==
    [type |-> "azurerm_managed_disk",
     after |-> [location |-> "eastus", storage_account_type |-> "Premium_LRS",
                disk_size_gb |-> JInt(64)]]
DiskRemoteKind ==
    [type |-> "azurerm_managed_disk",
     after |-> [location |-> "eastus", storage_account_type |-> "StandardSSD_LRS",
                disk_size_gb |-> JInt(64)]]
SubnetKind == [type |-> "azurerm_subnet", after |-> EmptyDict]
KeyVaultKind ==
    [type |-> "azurerm_key_vault", after |-> [location |-> "eastus"]]

CalcKinds ==
    {VmRemoteKind, VmOsDiskKind, StorageRemoteKind, DiskNullSizeKind,
     DiskStaticKind, DiskRemoteKind, SubnetKind, KeyVaultKind}

\* the resource changes of the calculator's plans: every kind created, and
\* one destroyed
CalcChanges ==
    {<<kind, <<"create">>>> : kind \in CalcKinds}
        \cup {<<SubnetKind, <<"delete">>>>}

\* the plan documents made of at most MaxPlanLen of the given changes
PlanDocs(changes) ==
    {[resource_changes |->
        [i \in DOMAIN pick |->
            Change(i, pick[i][1].type, pick[i][2], pick[i][1].after)]] :
     pick \in UNION {[1..n -> changes] : n \in 0..MaxPlanLen}}

CalcResponses ==
    {RaiseResponse, ItemsResponse(<< >>), ItemsResponse(<<Item(100000)>>)}

Thresholds == {0, 30630000}

\* CostCalculator.__init__ on some plan file
InitCalc ==
    /\ plan_file \in {MissingFile, MalformedFile, JsonFile(EmptyDict)}
                     \cup {JsonFile(doc) : doc \in PlanDocs(CalcChanges)}
    /\ plan_data = None
    /\ cost_threshold = None
    /\ cache = EmptyDict
    /\ cache_timestamps = EmptyDict
    /\ now = 0
    /\ ret = NoCall
    /\ lookups = << >>
    /\ cleared = FALSE
    /\ breakdown = None
    /\ trace = << >>
    /\ pricing_api \in [ServiceNames -> CalcResponses]

CalculateCostsAccumulating ==
    \E r \in {calculate_costs(plan_file, plan_data, cache, cache_timestamps,
                              now, pricing_api)} :
    \E out \in {IF r.out.tag = "ok" /\ breakdown # None
                THEN Ok([resources |-> breakdown.resources \o r.out.v.resources,
                         total_monthly_cost |-> breakdown.total_monthly_cost
                                                + r.out.v.total_monthly_cost,
                         unknown_costs |-> breakdown.unknown_costs
                                           \o r.out.v.unknown_costs])
                ELSE r.out} :
        /\ plan_data' = r.plan_data
        /\ cache' = r.acc.cache
        /\ cache_timestamps' = r.acc.stamps
        /\ lookups' = r.acc.lookups
        /\ trace' = r.acc.trace
        /\ ret' = [op |-> "calculate_costs", out |-> out]
        /\ breakdown' = IF out.tag = "ok" THEN out.v ELSE breakdown
        /\ UNCHANGED <<plan_file, cost_threshold, now, cleared, pricing_api>>

CalculateCosts ==
    \E r \in {calculate_costs(plan_file, plan_data, cache, cache_timestamps,
                              now, pricing_api)} :
        /\ plan_data' = r.plan_data
        /\ cache' = r.acc.cache
        /\ cache_timestamps' = r.acc.stamps
        /\ lookups' = r.acc.lookups
        /\ trace' = r.acc.trace
        /\ ret' = [op |-> "calculate_costs", out |-> r.out]
        /\ breakdown' = IF r.out.tag = "ok" THEN r.out.v ELSE breakdown
        /\ UNCHANGED <<plan_file, cost_threshold, now, cleared, pricing_api>>

\* CostCalculator.set_cost_threshold
SetCostThreshold ==
    \E threshold \in Thresholds :
        /\ cost_threshold' = Float(threshold)
        /\ ret' = [op |-> "set_cost_threshold", out |-> Ok(None)]
        /\ UNCHANGED <<plan_file, plan_data, cache, cache_timestamps, now,
                       lookups, cleared, breakdown, trace, pricing_api>>

\* validate_cost_threshold on the breakdown calculate_costs returned
ValidateCostThreshold ==
    /\ breakdown # None
    /\ ret' = [op |-> "validate_cost_threshold",
               out |-> Ok(validate_cost_threshold(cost_threshold, breakdown)),
               threshold |-> cost_threshold,
               total |-> breakdown.total_monthly_cost]
    /\ UNCHANGED <<plan_file, plan_data, cost_threshold, cache,
                   cache_timestamps, now, lookups, cleared, breakdown, trace,
                   pricing_api>>

NextCalc ==
    \/ CalculateCosts
    \/ SetCostThreshold
    \/ ValidateCostThreshold

SpecCalc == InitCalc /\ [][NextCalc]_vars

----------------------------------------------------------------------------
(* Properties of the calculator, checked under SpecCalc *)

\* the resources get_resource_changes returns for the loaded plan
Extracted == get_resource_changes(plan_data).v

KnownAddresses == {breakdown.resources[i].address : i \in DOMAIN breakdown.resources}
UnknownAddresses == Range(breakdown.unknown_costs)

\* how many entries of the breakdown record the address
TimesRecorded(address) ==
    Cardinality({i \in DOMAIN breakdown.resources :
                    breakdown.resources[i].address = address})
    + Cardinality({i \in DOMAIN breakdown.unknown_costs :
                    breakdown.unknown_costs[i] = address})

\* C1: after calculate_costs every extracted resource is recorded in exactly
\* one of breakdown.resources and breakdown.unknown_costs, and the two lists
\* hold nothing else.
C1_EveryResourceRecordedOnce ==
    breakdown # None =>
        /\ Len(breakdown.resources) + Len(breakdown.unknown_costs) = Len(Extracted)
        /\ \A i \in DOMAIN Extracted :
              TimesRecorded(Extracted[i]["address"]) = 1
        /\ KnownAddresses \cap UnknownAddresses = {}

\* a plan of two resources, one priced and one not
C1_Witness ==
    /\ breakdown # None
    /\ Len(Extracted) = 2
    /\ Len(breakdown.resources) = 1
    /\ Len(breakdown.unknown_costs) = 1

RECURSIVE SumOfCosts(_)
SumOfCosts(resources) ==
    IF resources = << >> THEN 0
    ELSE Head(resources).monthly_cost.v + SumOfCosts(Tail(resources))

\* C2: the total of a breakdown is the sum of the monthly costs of its
\* resources; the unknown resources add nothing.
C2_TotalIsSumOfKnownCosts ==
    breakdown # None =>
        breakdown.total_monthly_cost = SumOfCosts(breakdown.resources)

\* a breakdown with a priced resource of non-zero cost and an unknown one
C2_Witness ==
    /\ breakdown # None
    /\ breakdown.unknown_costs # << >>
    /\ breakdown.resources # << >>
    /\ breakdown.total_monthly_cost > 0

\* C4: validate_cost_threshold returns True exactly when no threshold is set
\* or the total is at most the threshold set last.
C4_ThresholdValidation ==
    ret.op = "validate_cost_threshold" =>
        (ret.out = Ok(TRUE)
            <=> (ret.threshold = None \/ ret.total <= ret.threshold.v))

\* a non-zero total equal to the threshold passes
C4_Witness ==
    /\ ret.op = "validate_cost_threshold"
    /\ ret.threshold # None
    /\ ret.total > 0
    /\ ret.total = ret.threshold.v
    /\ ret.out = Ok(TRUE)

\* the loop went through every extracted resource, in order
AllProcessed ==
    /\ Len(trace) = Len(Extracted)
    /\ \A i \in DOMAIN trace : trace[i].address = Extracted[i]["address"]

C6_NoRuleIsUnknown ==
    ret.op = "calculate_costs" /\ ret.out.tag = "ok" =>
        \A i \in DOMAIN Extracted :
            Extracted[i]["type"] \notin DOMAIN RESOURCE_HANDLERS =>
                /\ Extracted[i]["address"] \in UnknownAddresses
                /\ Extracted[i]["address"] \notin KnownAddresses
                /\ breakdown.total_monthly_cost =
                      SumOfCosts(SelectSeq(breakdown.resources,
                          LAMBDA r : r.address # Extracted[i]["address"]))
                /\ trace[i].rule = "none"
                /\ AllProcessed

\* a resource without a rule is followed by one that is priced
C6_Witness ==
    /\ ret.op = "calculate_costs" /\ ret.out.tag = "ok"
    /\ Len(Extracted) = 2
    /\ Extracted[1]["type"] \notin DOMAIN RESOURCE_HANDLERS
    /\ breakdown.unknown_costs = <<Extracted[1]["address"]>>
    /\ Len(breakdown.resources) = 1
    /\ breakdown.total_monthly_cost > 0

\* a lookup of the last calculate_costs whose remote call raised or returned
\* no items
RemoteCallFailed(l) ==
    l.op \in PublicLookups /\ l.resp \in {"raise", "empty"}

\* the lookup prices the OS disk of a virtual machine (the resource's address
\* starts with its type)
IsOsDiskLookup(l) ==
    /\ l.op = "get_managed_disk_price"
    /\ Get(RESOURCE_HANDLERS, l.resource[1], "") = "VirtualMachineHandler"

\* the breakdown prices the resource at address at exactly cost
PricedAt(address, cost) ==
    \E i \in DOMAIN breakdown.resources :
        /\ breakdown.resources[i].address = address
        /\ breakdown.resources[i].monthly_cost = Float(cost)

\* the base cost of the virtual machine at address: the hourly price its VM
\* lookup returned, times 730
BaseVmCost(address) ==
    LET i == CHOOSE j \in DOMAIN lookups :
                lookups[j].op = "get_vm_price" /\ lookups[j].resource = address
    IN  lookups[i].out.retailPrice * 730

----------------------------------------------------------------------------
(* The plan parser on plan documents *)

\* the action lists of a resource change in a Terraform plan
ActionLists ==
    {<<"create">>, <<"update">>, <<"delete">>, <<"read">>, <<"no-op">>,
     <<"delete", "create">>, <<"create", "delete">>}

ParserChanges == {SubnetKind, KeyVaultKind} \X ActionLists

\* PlanParser.__init__ on some plan file
InitPlan ==
    /\ plan_file \in {MissingFile, MalformedFile, JsonFile(EmptyDict)}
                     \cup {JsonFile(doc) : doc \in PlanDocs(ParserChanges)}
    /\ plan_data = None
    /\ cost_threshold = None
    /\ cache = EmptyDict
    /\ cache_timestamps = EmptyDict
    /\ now = 0
    /\ ret = NoCall
    /\ lookups = << >>
    /\ cleared = FALSE
    /\ breakdown = None
    /\ trace = << >>
    /\ pricing_api = Answering(ItemsResponse(<< >>))

ParserFrame ==
    UNCHANGED <<plan_file, cost_threshold, cache, cache_timestamps, now,
                lookups, cleared, breakdown, trace, pricing_api>>

LoadPlan ==
    LET r == load_plan(plan_file, plan_data) IN
    /\ plan_data' = r.plan_data
    /\ ret' = [op |-> "load_plan", out |-> r.out]
    /\ ParserFrame

GetResourceChanges ==
    /\ ret' = [op |-> "get_resource_changes",
               out |-> get_resource_changes(plan_data)]
    /\ UNCHANGED plan_data
    /\ ParserFrame

GetResourceCount ==
    /\ ret' = [op |-> "get_resource_count",
               out |-> get_resource_count(plan_data)]
    /\ UNCHANGED plan_data
    /\ ParserFrame

GetResourceTypes ==
    /\ ret' = [op |-> "get_resource_types",
               out |-> get_resource_types(plan_data)]
    /\ UNCHANGED plan_data
    /\ ParserFrame

NextPlan ==
    \/ LoadPlan
    \/ GetResourceChanges
    \/ GetResourceCount
    \/ GetResourceTypes

SpecPlan == InitPlan /\ [][NextPlan]_vars

----------------------------------------------------------------------------
(* Properties of the plan parser, checked under SpecPlan *)

\* the resource changes of the loaded document
LoadedChanges == Get(plan_data, "resource_changes", << >>)

\* the positions of the changes whose action set is {create} or {update}
KeptPositions ==
    {i \in DOMAIN LoadedChanges :
        Range(LoadedChanges[i].change.actions) \in {{"create"}, {"update"}}}

\* the k-th of them, in plan order
KeptPosition(k) ==
    CHOOSE i \in KeptPositions :
        Cardinality({j \in KeptPositions : j <= i}) = k

\* records is one record per kept change, in plan order
IsKeptChanges(records) ==
    /\ Len(records) = Cardinality(KeptPositions)
    /\ \A k \in DOMAIN records :
          /\ records[k]["address"] = LoadedChanges[KeptPosition(k)].address
          /\ records[k]["type"] = LoadedChanges[KeptPosition(k)].type
          /\ records[k]["raw_values"] = LoadedChanges[KeptPosition(k)].change.after

\* C3: once a plan is loaded, get_resource_changes returns one record, in
\* plan order, for each change whose action set is {create} or {update} and
\* none for the others, and get_resource_count returns their number.
C3_KeepsCreatedAndUpdated ==
    plan_data # None =>
        /\ ret.op = "get_resource_changes" =>
              ret.out.tag = "ok" /\ IsKeptChanges(ret.out.v)
        /\ ret.op = "get_resource_count" =>
              ret.out = Ok(Cardinality(KeptPositions))

----------------------------------------------------------------------------
(* The calculator on the plan of test_cost_calculation *)

\* the virtual machine of the sample plan: no os_disk block
VmStaticKind ==
    [type |-> "azurerm_linux_virtual_machine",
     after |-> [location |-> "eastus", size |-> "Standard_D2s_v3"]]

\* a storage account given by tier and replication type
StorageStaticKind ==
    [type |-> "azurerm_storage_account",
     after |-> [location |-> "eastus", account_tier |-> "Standard",
                account_replication_type |-> "LRS"]]

\* the storage account of the sample plan: an account_type field only
StorageAccountTypeKind ==
    [type |-> "azurerm_storage_account",
     after |-> [location |-> "eastus", account_type |-> "Standard_LRS"]]

ScenarioChanges ==
    {<<kind, <<"create">>>> :
        kind \in {VmStaticKind, StorageStaticKind, StorageAccountTypeKind}}

\* mock_responses: $0.10 and $0.02
ScenarioResponses ==
    {ItemsResponse(<<Item(100000)>>), ItemsResponse(<<Item(20000)>>)}

\* CostCalculator.__init__ on a plan of the sample's resources, the pricing
\* service mocked
InitScenario ==
    /\ plan_file \in {JsonFile(doc) : doc \in PlanDocs(ScenarioChanges)}
    /\ plan_data = None
    /\ cost_threshold = None
    /\ cache = EmptyDict
    /\ cache_timestamps = EmptyDict
    /\ now = 0
    /\ ret = NoCall
    /\ lookups = << >>
    /\ cleared = FALSE
    /\ breakdown = None
    /\ trace = << >>
    /\ pricing_api \in [ServiceNames -> ScenarioResponses]

SpecScenario == InitScenario /\ [][NextCalc]_vars

\* the pricing service quotes $0.10/hour for virtual machines and $0.02/GB
\* for storage
ScenarioQuotes ==
    /\ pricing_api["Virtual Machines"] = ItemsResponse(<<Item(100000)>>)
    /\ pricing_api["Storage"] = ItemsResponse(<<Item(20000)>>)

\* the loaded plan creates the VM and one storage account, in either order
ScenarioPlan ==
    /\ plan_data # None
    /\ Len(LoadedChanges) = 2
    /\ \E i, j \in DOMAIN LoadedChanges :
          /\ LoadedChanges[i].type = VmStaticKind.type
          /\ LoadedChanges[i].change.after = VmStaticKind.after
          /\ LoadedChanges[j].type = "azurerm_storage_account"

AddressOfType(type) ==
    LoadedChanges[CHOOSE i \in DOMAIN LoadedChanges :
                    LoadedChanges[i].type = type].address

\* C11: with the service quoting $0.10/hour for VMs and $0.02/GB for
\* storage, the plan of one Standard_D2s_v3 VM and one storage account
\* yields 2 known resources and 0 unknown, the VM at 73.00, the storage
\* account at 2.00 and the total 75.00.
C11_ScenarioTotals ==
    ret.op = "calculate_costs" /\ ScenarioQuotes /\ ScenarioPlan =>
        /\ ret.out.tag = "ok"
        /\ Len(breakdown.resources) = 2
        /\ breakdown.unknown_costs = << >>
        /\ PricedAt(AddressOfType(VmStaticKind.type), 73000000)
        /\ PricedAt(AddressOfType("azurerm_storage_account"), 2000000)
        /\ breakdown.total_monthly_cost = 75000000

----------------------------------------------------------------------------
(* calculator.py: the reports *)

\* A report is a sequence of lines ("\n".join(lines)); a line is a sequence
\* of pieces, in the order the f-string writes them:
\*   Text(s)     the literal characters s
\*   Shown(v)    str(v) of a value: an address, a type, a detail value
\*   Fixed2(n)   f"{x:.2f}" of the amount n: rounded to whole cents (the
\*               amounts of the model are never half a cent from a cent)
\*   JsonStr(v)  json.dumps of the string v, quoted and escaped
\*   JsonNum(n)  json.dumps of the float n, all its digits
Text(s) == [tag |-> "text", v |-> s]
Shown(v) == [tag |-> "str", v |-> v]
Fixed2(n) == [tag |-> "2f", v |-> (n + 5000) \div 10000]
JsonStr(v) == [tag |-> "json_str", v |-> v]
JsonNum(n) == [tag |-> "json_num", v |-> n]

\* the lines of all the elements of a sequence of line sequences
RECURSIVE extend(_)
extend(line_seqs) ==
    IF line_seqs = << >> THEN << >>
    ELSE Head(line_seqs) \o extend(Tail(line_seqs))

\* details.items(), in the order _extract_cost_details inserts the keys
DetailKeys == <<"location", "size", "sku", "tier">>
items(details) ==
    LET keys == SelectSeq(DetailKeys, LAMBDA k : k \in DOMAIN details)
    IN  [i \in DOMAIN keys |-> <<keys[i], details[keys[i]]>>]

\* f"${resource.monthly_cost:.2f}" if resource.monthly_cost is not None
\* else "Unknown"
cost_str(monthly_cost) ==
    IF monthly_cost # None
    THEN <<Text("$"), Fixed2(monthly_cost.v)>>
    ELSE <<Text("Unknown")>>

\* the lines of one resource in the text report
text_resource_lines(resource) ==
    <<<<Shown(resource.address), Text(": ")>> \o cost_str(resource.monthly_cost)
        \o <<Text("/month")>>>>
    \o [i \in DOMAIN items(resource.details) |->
            <<Text("  "), Shown(items(resource.details)[i][1]), Text(": "),
              Shown(items(resource.details)[i][2])>>]
    \o <<<<Text("")>>>>

\* the "Resources with Unknown Costs" section of the text report
text_unknown_lines_always_empty(unknown_costs) == << >>

text_unknown_lines(unknown_costs) ==
    IF unknown_costs # << >>
    THEN <<<<Text("Resources with Unknown Costs:")>>,
           <<Text("----------------------------")>>>>
         \o [i \in DOMAIN unknown_costs |->
                <<Text("- "), Shown(unknown_costs[i])>>]
         \o <<<<Text("")>>>>
    ELSE << >>

\* CostCalculator._format_text_report
_format_text_report(bd) ==
    <<<<Text("Azure Resource Cost Estimation Report")>>,
      <<Text("===================================")>>,
      <<Text("")>>,
      <<Text("Resource Costs:")>>,
      <<Text("---------------")>>>>
    \o extend([i \in DOMAIN bd.resources |->
                  text_resource_lines(bd.resources[i])])
    \o text_unknown_lines(bd.unknown_costs)
    \o <<<<Text("===================================")>>,
         <<Text("Total Estimated Monthly Cost: $"),
           Fixed2(bd.total_monthly_cost)>>>>
    \o (IF bd.unknown_costs # << >>
        THEN <<<<Text("(Note: Some resource costs could not be determined)")>>>>
        ELSE << >>)

\* ", ".join(f"{k}: {v}" for k, v in resource.details.items()): one piece
Joined(pairs) == [tag |-> "joined", v |-> pairs]

\* the table row of one resource in the markdown report
markdown_resource_line(resource) ==
    <<Text("| "), Shown(resource.address), Text(" | "), Shown(resource.type),
      Text(" | ")>>
    \o cost_str(resource.monthly_cost)
    \o <<Text(" | "), Joined(items(resource.details)), Text(" |")>>

\* CostCalculator._format_markdown_report
_format_markdown_report(bd) ==
    <<<<Text("# Azure Resource Cost Estimation Report")>>,
      <<Text("")>>,
      <<Text("## Resource Costs")>>,
      <<Text("")>>,
      <<Text("| Resource | Type | Monthly Cost | Details |")>>,
      <<Text("|----------|------|--------------|----------|")>>>>
    \o [i \in DOMAIN bd.resources |-> markdown_resource_line(bd.resources[i])]
    \o <<<<Text("")>>>>
    \o (IF bd.unknown_costs # << >>
        THEN <<<<Text("## Resources with Unknown Costs")>>, <<Text("")>>>>
             \o [i \in DOMAIN bd.unknown_costs |->
                    <<Text("* "), Shown(bd.unknown_costs[i])>>]
             \o <<<<Text("")>>>>
        ELSE << >>)
    \o <<<<Text("## Summary")>>,
         <<Text("")>>,
         <<Text("**Total Estimated Monthly Cost:** $"),
           Fixed2(bd.total_monthly_cost)>>>>
    \o (IF bd.unknown_costs # << >>
        THEN <<<<Text("")>>,
               <<Text("*Note: Some resource costs could not be determined*")>>,
               <<Text("")>>>>
        ELSE << >>)

\* json.dumps of an Optional[float]
json_cost(monthly_cost) ==
    IF monthly_cost # None THEN JsonNum(monthly_cost.v) ELSE Text("null")

\* the object of one resource in the JSON report, one member per line
json_resource_lines(resource) ==
    <<<<Text("{")>>,
      <<Text("\"address\": "), JsonStr(resource.address), Text(",")>>,
      <<Text("\"type\": "), JsonStr(resource.type), Text(",")>>,
      <<Text("\"name\": "), JsonStr(resource.name), Text(",")>>,
      <<Text("\"monthly_cost\": "), json_cost(resource.monthly_cost), Text(",")>>,
      <<Text("\"details\": {")>>>>
    \o [i \in DOMAIN items(resource.details) |->
            <<JsonStr(items(resource.details)[i][1]), Text(": "),
              JsonStr(items(resource.details)[i][2])>>]
    \o <<<<Text("}")>>, <<Text("}")>>>>

\* CostCalculator._format_json_report: json.dumps(report, indent=2)
_format_json_report(bd) ==
    <<<<Text("{")>>, <<Text("\"resources\": [")>>>>
    \o extend([i \in DOMAIN bd.resources |->
                  json_resource_lines(bd.resources[i])])
    \o <<<<Text("],")>>, <<Text("\"unknown_costs\": [")>>>>
    \o [i \in DOMAIN bd.unknown_costs |-> <<JsonStr(bd.unknown_costs[i])>>]
    \o <<<<Text("],")>>,
         <<Text("\"total_monthly_cost\": "), JsonNum(bd.total_monthly_cost)>>,
         <<Text("}")>>>>

\* CostCalculator.format_cost_report
format_cost_report(bd, format) ==
    IF format = "markdown" THEN _format_markdown_report(bd)
    ELSE IF format = "json" THEN _format_json_report(bd)
    ELSE _format_text_report(bd)

----------------------------------------------------------------------------
(* The reports of breakdowns *)

\* the entries of breakdown.resources: priced or not, with or without
\* details
ReportResources ==
    [address : {"test.vm", "test.disk"},
     type : {"azurerm_linux_virtual_machine"},
     name : {"test"},
     monthly_cost : {None, Float(7592000)},
     details : {EmptyDict, [location |-> "eastus", size |-> "Standard_B1s"]}]

ReportUnknown == {"test.unknown_resource", "test.key_vault"}

\* totals: none, one with a fraction of a cent, one of whole dollars
ReportTotals == {0, 7592000, 73000000}

SeqsUpTo(S, n) == UNION {[1..k -> S] : k \in 0..n}

\* the breakdowns handed to format_cost_report
Breakdowns ==
    [resources : SeqsUpTo(ReportResources, MaxPlanLen),
     total_monthly_cost : ReportTotals,
     unknown_costs : SeqsUpTo(ReportUnknown, MaxPlanLen)]

\* the format argument; anything but markdown and json gives the text report
Formats == {"text", "markdown", "json", "html"}

InitReport ==
    /\ plan_file = MissingFile
    /\ plan_data = None
    /\ cost_threshold = None
    /\ cache = EmptyDict
    /\ cache_timestamps = EmptyDict
    /\ now = 0
    /\ ret = NoCall
    /\ lookups = << >>
    /\ cleared = FALSE
    /\ breakdown \in Breakdowns
    /\ trace = << >>
    /\ pricing_api = Answering(ItemsResponse(<< >>))

\* CostCalculator.format_cost_report on the breakdown
FormatCostReport ==
    \E format \in Formats :
        /\ ret' = [op |-> "format_cost_report", format |-> format,
                   out |-> Ok(format_cost_report(breakdown, format))]
        /\ UNCHANGED <<plan_file, plan_data, cost_threshold, cache,
                       cache_timestamps, now, lookups, cleared, breakdown,
                       trace, pricing_api>>

NextReport == FormatCostReport

SpecReport == InitReport /\ [][NextReport]_vars

\* the report has the piece somewhere
Contains(report, piece) ==
    \E i \in DOMAIN report : \E j \in DOMAIN report[i] : report[i][j] = piece

\* how a format writes a string and the total
WrittenString(format, v) == IF format = "json" THEN JsonStr(v) ELSE Shown(v)
WrittenTotal(format, n) == IF format = "json" THEN JsonNum(n) ELSE Fixed2(n)

\* C14: in each of the three formats the report contains the address of
\* every entry of breakdown.resources, every entry of
\* breakdown.unknown_costs, and the total monthly cost (to the cent in the
\* text and markdown reports, in full in the JSON report).
C14_ReportIsComplete ==
    ret.op = "format_cost_report" /\ ret.format \in {"text", "markdown", "json"} =>
        /\ \A i \in DOMAIN breakdown.resources :
              Contains(ret.out.v,
                       WrittenString(ret.format, breakdown.resources[i].address))
        /\ \A i \in DOMAIN breakdown.unknown_costs :
              Contains(ret.out.v,
                       WrittenString(ret.format, breakdown.unknown_costs[i]))
        /\ Contains(ret.out.v,
                    WrittenTotal(ret.format, breakdown.total_monthly_cost))

\* a text report of two resources, one of them without a cost, two unknown
\* resources and a total that is not a whole number of cents
C14_Witness ==
    /\ ret.op = "format_cost_report" /\ ret.format = "text"
    /\ Len(breakdown.resources) = 2
    /\ breakdown.resources[1].address # breakdown.resources[2].address
    /\ breakdown.resources[1].monthly_cost = None
    /\ Len(breakdown.unknown_costs) = 2
    /\ breakdown.unknown_costs[1] # breakdown.unknown_costs[2]
    /\ breakdown.total_monthly_cost = 7592000
    /\ Contains(ret.out.v, Shown("test.key_vault"))
    /\ Contains(ret.out.v, Fixed2(7590000))

----------------------------------------------------------------------------
(* __main__.py *)

\* `if args.cost_threshold:` on an Optional[float]: None and 0.0 are falsy
truthy_float(x) == x # None /\ x.v # 0

\* the threshold main() sets on the calculator: --cost-threshold when the
\* argument is truthy, else none
threshold_set(threshold_arg) ==
    IF truthy_float(threshold_arg) THEN threshold_arg ELSE None

\* main() from the report on: the report goes to stdout, then the threshold
\* is checked; an exception of calculate_costs is caught and gives 1
report_and_validate(threshold, format, r) ==
    IF r.out.tag = "raise"
    THEN [exit |-> 1, stdout |-> << >>, threshold |-> threshold, run |-> r]
    ELSE [exit |-> IF validate_cost_threshold(threshold, r.out.v) THEN 0 ELSE 1,
          stdout |-> format_cost_report(r.out.v, format),
          threshold |-> threshold, run |-> r]

\* main() with --plan-file file, --cost-threshold threshold_arg (None when
\* the option is not given) and --output-format format, no --output-file
\* and no Slack webhook, at time t against the pricing service svc
main(file, threshold_arg, format, t, svc) ==
    IF file.kind = "missing"
    THEN [exit |-> 1, stdout |-> << >>, threshold |-> None,
          run |-> [out |-> Raise("FileNotFoundError"), plan_data |-> None,
                   acc |-> LoopStart(EmptyDict, EmptyDict)]]
    ELSE report_and_validate(threshold_set(threshold_arg), format,
            calculate_costs(file, None, EmptyDict, EmptyDict, t, svc))

\* the choices of --output-format
OutputFormats == {"text", "markdown", "json"}

\* the values of --cost-threshold: not given, or a float
ThresholdArgs == {None} \cup {Float(x) : x \in Thresholds}

\* one run of the command line; the variables hold the calculator of the run
Main ==
    \E threshold_arg \in ThresholdArgs, format \in OutputFormats :
    \E m \in {main(plan_file, threshold_arg, format, now, pricing_api)} :
        /\ plan_data' = m.run.plan_data
        /\ cost_threshold' = m.threshold
        /\ cache' = m.run.acc.cache
        /\ cache_timestamps' = m.run.acc.stamps
        /\ lookups' = m.run.acc.lookups
        /\ trace' = m.run.acc.trace
        /\ breakdown' = IF m.run.out.tag = "ok" THEN m.run.out.v ELSE None
        /\ ret' = [op |-> "main", out |-> Ok(m.exit),
                   threshold_arg |-> threshold_arg, stdout |-> m.stdout]
        /\ UNCHANGED <<plan_file, now, cleared, pricing_api>>

NextCli == Main

SpecCli == InitCalc /\ [][NextCli]_vars

\* C12: main returns 0 exactly when the plan file exists, parsing and cost
\* calculation succeed and the total does not exceed the threshold given
\* with --cost-threshold (or none was given); for any threshold given it
\* returns non-zero if the file is missing, parsing fails or the total
\* exceeds that threshold.
C12_ExitCode ==
    ret.op = "main" =>
        /\ ret.out = Ok(0) <=>
              /\ plan_file.kind = "json"
              /\ breakdown # None
              /\ \/ ret.threshold_arg = None
                 \/ breakdown.total_monthly_cost <= ret.threshold_arg.v
        /\ ret.out \in {Ok(0), Ok(1)}

----------------------------------------------------------------------------
(* More properties of the plan parser, checked under SpecPlan *)

QueryOps == {"get_resource_changes", "get_resource_count", "get_resource_types"}

\* C13: get_resource_changes, get_resource_count and get_resource_types on
\* a parser whose plan has not been loaded raise ValueError and return no
\* data.
C13_QueryBeforeLoadFails ==
    plan_data = None /\ ret.op \in QueryOps => ret.out = Raise("ValueError")

\* the plan file is a loadable document with a resource to create, and
\* get_resource_types was called before load_plan
C13_Witness ==
    /\ plan_data = None
    /\ plan_file.kind = "json"
    /\ \E i \in DOMAIN Get(plan_file.data, "resource_changes", << >>) :
          plan_file.data.resource_changes[i].change.actions = <<"create">>
    /\ ret = [op |-> "get_resource_types", out |-> Raise("ValueError")]

----------------------------------------------------------------------------
(* More properties of the pricing client, checked under SpecPricing *)

\* C15: after clear_cache the cache and its timestamps hold no entries, and
\* the next lookup that misses the static table issues a remote call, even
\* when the same query was cached less than a cache window before.
C15_ClearCacheForcesRemoteCall ==
    /\ cleared => cache = EmptyDict /\ cache_timestamps = EmptyDict
    /\ \A i \in DOMAIN lookups :
          lookups[i].after_clear /\ ~lookups[i].static => lookups[i].remote

\* a query is answered remotely and cached, the cache is cleared, and the
\* same query within the window goes to the service again
C15_Witness ==
    /\ Len(lookups) = 2
    /\ lookups[1].remote /\ lookups[1].resp = "items"
    /\ cache_key(lookups[2].filters) = cache_key(lookups[1].filters)
    /\ lookups[2].t - lookups[1].t < CACHE_DURATION
    /\ lookups[2].after_clear
    /\ lookups[2].remote

----------------------------------------------------------------------------
(* More properties of the calculator, checked under SpecCalc *)

\* where the plan has the resource change of that address
PlanPosition(address) ==
    CHOOSE k \in DOMAIN LoadedChanges : LoadedChanges[k].address = address

\* C16: breakdown.resources lists the known resources in the order of the
\* plan, and breakdown.unknown_costs the unknown addresses in the order the
\* loop met them, which is the order of the plan.
C16_PlanOrderKept ==
    breakdown # None =>
        /\ \A i, j \in DOMAIN breakdown.resources :
              i < j => PlanPosition(breakdown.resources[i].address)
                         < PlanPosition(breakdown.resources[j].address)
        /\ \A i, j \in DOMAIN breakdown.unknown_costs :
              i < j => PlanPosition(breakdown.unknown_costs[i])
                         < PlanPosition(breakdown.unknown_costs[j])

\* two known resources of different cost, listed in the order of the plan
C16_Witness ==
    /\ breakdown # None
    /\ Len(breakdown.resources) = 2
    /\ breakdown.resources[1].monthly_cost # breakdown.resources[2].monthly_cost
    /\ PlanPosition(breakdown.resources[1].address) = 1
    /\ PlanPosition(breakdown.resources[2].address) = 2

----------------------------------------------------------------------------
(* The calculator on plans of resources without a direct cost *)

\* the resource types whose handler returns 0.0
ZeroCostTypes ==
    {"azurerm_network_interface", "azurerm_virtual_network", "azurerm_subnet",
     "azurerm_resource_group", "azurerm_logic_app_action_custom",
     "azurerm_logic_app_trigger_custom"}

\* each of them without any value, and with values other rules would use
ZeroCostKinds ==
    [type : ZeroCostTypes,
     after : {EmptyDict,
              [location |-> "eastus", size |-> "Standard_B1s",
               disk_size_gb |-> JNull]}]

ZeroCostChanges ==
    {<<kind, <<"create">>>> :
        kind \in ZeroCostKinds \cup {KeyVaultKind, DiskNullSizeKind}}

InitZeroCost ==
    /\ plan_file \in {JsonFile(doc) : doc \in PlanDocs(ZeroCostChanges)}
    /\ plan_data = None
    /\ cost_threshold = None
    /\ cache = EmptyDict
    /\ cache_timestamps = EmptyDict
    /\ now = 0
    /\ ret = NoCall
    /\ lookups = << >>
    /\ cleared = FALSE
    /\ breakdown = None
    /\ trace = << >>
    /\ pricing_api = Answering(ItemsResponse(<< >>))

SpecZeroCost == InitZeroCost /\ [][NextCalc]_vars

\* C17: a resource of a zero-cost type gets monthly cost 0 whatever its
\* configuration, is listed in breakdown.resources and is not in
\* unknown_costs.
C17_ZeroIsAKnownCost ==
    breakdown # None =>
        \A i \in DOMAIN Extracted :
            Extracted[i]["type"] \in ZeroCostTypes =>
                /\ PricedAt(Extracted[i]["address"], 0)
                /\ Extracted[i]["address"] \notin UnknownAddresses

\* two resources of different zero-cost types, one with values and one
\* without, both known at cost 0
C17_Witness ==
    /\ breakdown # None
    /\ Len(Extracted) = 2
    /\ Extracted[1]["type"] = "azurerm_logic_app_trigger_custom"
    /\ Extracted[1]["raw_values"] # EmptyDict
    /\ Extracted[2]["type"] = "azurerm_resource_group"
    /\ Extracted[2]["raw_values"] = EmptyDict
    /\ Len(breakdown.resources) = 2
    /\ breakdown.unknown_costs = << >>
    /\ breakdown.total_monthly_cost = 0

----------------------------------------------------------------------------
(* The pricing rules on single resources *)

\* "after" values of virtual machines: priced remotely or from the table,
\* a required value missing, and the shapes of the os_disk block
VmAfters ==
    {[location |-> "eastus", size |-> "Standard_B1s"],
     [location |-> "eastus", size |-> "Standard_D2s_v3"],
     [size |-> "Standard_D2s_v3"],
     [location |-> "eastus"],
     [location |-> "eastus", size |-> "Standard_D2s_v3",
      os_disk |-> <<[storage_account_type |-> "StandardSSD_LRS"]>>],
     [location |-> "eastus", size |-> "Standard_D2s_v3",
      os_disk |-> <<[storage_account_type |-> "Premium_LRS"]>>],
     [location |-> "eastus", size |-> "Standard_B1s",
      os_disk |-> <<[storage_account_type |-> "Premium_LRS"]>>],
     [location |-> "eastus", size |-> "Standard_D2s_v3",
      os_disk |-> <<[caching |-> "ReadWrite"]>>],
     [location |-> "eastus", size |-> "Standard_D2s_v3", os_disk |-> << >>]}

VmTypes == {"azurerm_linux_virtual_machine", "azurerm_virtual_machine"}

\* "after" values of storage accounts
StorageAfters ==
    {[location |-> "eastus", account_tier |-> "Standard",
      account_replication_type |-> "LRS"],
     [location |-> "eastus", account_tier |-> "Standard",
      account_replication_type |-> "ZRS"],
     [location |-> "eastus", account_replication_type |-> "LRS"],
     [location |-> "eastus", account_tier |-> "Standard"],
     [account_tier |-> "Standard", account_replication_type |-> "LRS"],
     [location |-> "eastus", account_type |-> "Standard_LRS"]}

\* disk sizes on both sides of every step of the tier ladder, and 0
DiskRuleSizes == {0, 1, 32, 33, 64, 65, 128, 129, 256, 257}

\* "after" values of managed disks
DiskAfters ==
    {[location |-> "eastus", storage_account_type |-> type,
      disk_size_gb |-> JInt(size)] :
        type \in {"Premium_LRS", "Standard_LRS"}, size \in DiskRuleSizes}
    \cup
    {[location |-> "eastus", storage_account_type |-> "StandardSSD_LRS",
      disk_size_gb |-> JInt(64)],
     [location |-> "eastus", disk_size_gb |-> JInt(64)],
     [storage_account_type |-> "Premium_LRS", disk_size_gb |-> JInt(64)],
     [location |-> "eastus", storage_account_type |-> "Premium_LRS"],
     [location |-> "eastus", storage_account_type |-> "Premium_LRS",
      disk_size_gb |-> JNull]}

\* "after" values of App Service Plans: the flat sku_name, the sku block as
\* a list or as one object, with size, name, both or neither
PlanAfters ==
    {[location |-> "eastus", sku_name |-> sku] :
        sku \in {"B1", "B2", "B3", "b1", "P1v2", ""}}
    \cup
    {[location |-> "eastus", sku |-> block] :
        block \in {JList(<<[tier |-> "Basic", size |-> "B1"]>>),
                   JList(<<[name |-> "B3"]>>),
                   JList(<< >>),
                   JDict([size |-> "B2"]),
                   JDict([name |-> "b1"]),
                   JDict([size |-> "B1", name |-> "B2"]),
                   JDict([size |-> "", name |-> "B3"]),
                   JDict([tier |-> "Basic"])}}
    \cup
    {[sku_name |-> "B1"],
     [location |-> "eastus"],
     [location |-> "eastus", sku_name |-> "B1", sku |-> JDict([size |-> "B3"])],
     [location |-> "eastus", sku_name |-> "", sku |-> JDict([size |-> "B3"])]}

PlanTypes == {"azurerm_service_plan", "azurerm_app_service_plan"}

RuleKinds ==
    [type : VmTypes, after : VmAfters]
    \cup [type : {"azurerm_storage_account"}, after : StorageAfters]
    \cup [type : {"azurerm_managed_disk"}, after : DiskAfters]
    \cup [type : PlanTypes, after : PlanAfters]

\* the answers of the pricing service to the rules: an error, no items,
\* $0.10 or $0.02
RuleResponses == CalcResponses \cup {ItemsResponse(<<Item(20000)>>)}

\* a pricing client and the pricing service behind it
InitRules ==
    /\ plan_file = MissingFile
    /\ plan_data = None
    /\ cost_threshold = None
    /\ cache = EmptyDict
    /\ cache_timestamps = EmptyDict
    /\ now = 0
    /\ ret = NoCall
    /\ lookups = << >>
    /\ cleared = FALSE
    /\ breakdown = None
    /\ trace = << >>
    /\ pricing_api \in [ServiceNames -> RuleResponses]

\* get_handler(type).calculate_cost(resource) on the resource of a plan
\* entry; lookups holds the lookups of this call
CalculateCost ==
    \E kind \in RuleKinds :
    \E resource \in {_extract_resource_config(
                        Change(1, kind.type, <<"create">>, kind.after))} :
    \E h \in {calculate_cost(get_handler(kind.type), cache, cache_timestamps,
                             now, resource, pricing_api)} :
        /\ cache' = h.cache
        /\ cache_timestamps' = h.stamps
        /\ lookups' = h.lookups
        /\ ret' = [op |-> "calculate_cost", resource |-> resource,
                   out |-> h.out]
        /\ UNCHANGED <<plan_file, plan_data, cost_threshold, now, cleared,
                       breakdown, trace, pricing_api>>

NextRules == CalculateCost

SpecRules == InitRules /\ [][NextRules]_vars

----------------------------------------------------------------------------
(* Properties of the pricing rules, checked under SpecRules *)

\* the resource the last rule call priced, and its "after" values
RuleResource == ret.resource
RuleValues == ret.resource["raw_values"]

\* what the Pricing Source returned to the last rule call for that kind of
\* lookup: a quote, or None (also when the rule did not ask)
QuoteFrom(op) ==
    LET asked == {i \in DOMAIN lookups : lookups[i].op = op}
    IN  IF asked = {} THEN None ELSE lookups[CHOOSE i \in asked : TRUE].out

\* the configuration names an OS disk type
HasOsDiskType(raw) ==
    /\ "os_disk" \in DOMAIN raw
    /\ raw["os_disk"] # << >>
    /\ "storage_account_type" \in DOMAIN raw["os_disk"][1]

\* the rule asked the Pricing Source for a managed disk of that type and tier
AskedForDisk(type, tier) ==
    \E i \in DOMAIN lookups :
        /\ lookups[i].op = "get_managed_disk_price"
        /\ FilterValue(lookups[i].filters, "skuName") = type
        /\ FilterValue(lookups[i].filters, "tierName") = tier

\* C18: the virtual-machine rule returns absent when size or location is
\* missing or the Pricing Source has no quote for the size; otherwise the
\* monthly cost is the hourly price x 730, plus the Pricing Source's price
\* of a 128GB OS disk (tier P10) of the configured type when an OS disk
\* type is present.
C18_VirtualMachineRule ==
    ret.op = "calculate_cost" /\ RuleResource["type"] \in VmTypes =>
        LET vm == QuoteFrom("get_vm_price")
            disk == QuoteFrom("get_managed_disk_price")
        IN  IF \/ "size" \notin DOMAIN RuleValues
               \/ "location" \notin DOMAIN RuleValues
               \/ vm = None
            THEN ret.out = Ok(None)
            ELSE IF HasOsDiskType(RuleValues)
            THEN /\ AskedForDisk(RuleValues["os_disk"][1]["storage_account_type"],
                                 "P10")
                 /\ ret.out = Ok(Float(vm.retailPrice * 730
                                 + (IF disk # None THEN disk.retailPrice ELSE 0)))
            ELSE ret.out = Ok(Float(vm.retailPrice * 730))

\* the SKU names "T_R" of the tiers and replication types of the model
SkuNamed ==
    (<<"Standard", "LRS">> :> "Standard_LRS") @@
    (<<"Standard", "ZRS">> :> "Standard_ZRS")

Ladder(s) ==
    IF s \in 1..32 THEN "P4"
    ELSE IF s \in 33..64 THEN "P6"
    ELSE IF s \in 65..128 THEN "P10"
    ELSE IF s \in 129..256 THEN "P15"
    ELSE "P20"

\* the size of the disk of the last rule application; 0 when none is given
RuleDiskSize == Get(RuleValues, "disk_size_gb", JInt(0))

\* C20: a managed disk with a location, a size s > 0 and a storage type of
\* the static table costs the table's entry of that type at ladder(s),
\* unscaled and without a remote call; a disk without storage type, without
\* location or of size 0 has no cost. (A null size is neither: int(None)
\* raises.)
C20_ManagedDiskRule ==
    /\ ret.op = "calculate_cost"
    /\ RuleResource["type"] = "azurerm_managed_disk"
    /\ RuleDiskSize # JNull
    =>
        IF \/ "storage_account_type" \notin DOMAIN RuleValues
           \/ "location" \notin DOMAIN RuleValues
           \/ RuleDiskSize.v = 0
        THEN ret.out = Ok(None) /\ lookups = << >>
        ELSE RuleValues["storage_account_type"] \in DOMAIN DISK_PRICING /\ RuleDiskSize.v > 0 =>
               /\ ret.out = Ok(Float(DISK_PRICING[RuleValues["storage_account_type"]]
                                                 [Ladder(RuleDiskSize.v)]))
               /\ Len(lookups) = 1 /\ ~lookups[1].remote

\* a Premium_LRS disk of 256 GB, the largest P15 size, costs $115.32
C20_Witness ==
    /\ ret.op = "calculate_cost"
    /\ RuleResource["type"] = "azurerm_managed_disk"
    /\ RuleDiskSize = JInt(256)
    /\ Get(RuleValues, "storage_account_type", "") = "Premium_LRS"
    /\ ret.out = Ok(Float(115320000))

\* the table of the App Service Plan rule: B1 54.75, B2 109.50, B3 218.99
PlanPrices == ("B1" :> 54750000) @@ ("B2" :> 109500000) @@ ("B3" :> 218990000)

\* a field that is present, and a field that is present and not empty
IsPresent(d, key) == key \in DOMAIN d
IsNonEmpty(d, key) == key \in DOMAIN d /\ d[key] # ""

\* the sku of an App Service Plan, << >> for none: the flat sku_name if
\* given, else the size, else the name, of the sku block (the first element
\* of a list, or a single object)
SkuGiven(raw, Given(_, _)) ==
    IF Given(raw, "sku_name") THEN <<raw["sku_name"]>>
    ELSE IF "sku" \notin DOMAIN raw THEN << >>
    ELSE
    LET block == raw["sku"]
        object == IF block.tag = "dict" THEN <<block.v>>
                  ELSE IF block.tag = "list" /\ block.v # << >>
                  THEN <<block.v[1]>>
                  ELSE << >>
    IN  IF object = << >> THEN << >>
        ELSE IF Given(object[1], "size") THEN <<object[1]["size"]>>
        ELSE IF Given(object[1], "name") THEN <<object[1]["name"]>>
        ELSE << >>

\* the rule was last applied to an App Service Plan
PlanRuleApplied ==
    ret.op = "calculate_cost" /\ RuleResource["type"] \in PlanTypes

\* C21 as stated: the App Service Plan rule takes the sku from sku_name if
\* present, else from the sku block (size, else name), returns the table
\* value of that sku, and returns nothing exactly when the sku is missing or
\* not one of B1, B2, B3.
C21_AppServicePlanRule ==
    PlanRuleApplied =>
        LET sku == SkuGiven(RuleValues, IsPresent) IN
        ret.out = IF sku = << >> \/ sku[1] \notin DOMAIN PlanPrices
                  THEN Ok(None)
                  ELSE Ok(Float(PlanPrices[sku[1]]))

\* C21, amended: an empty sku_name, size or name counts as not given, the
\* sku is compared in upper case, and the rule returns nothing exactly when
\* the sku is missing, the location is missing, or the sku in upper case is
\* not one of B1, B2, B3; otherwise it returns the table value.
C21_AppServicePlanRuleWithLocation ==
    PlanRuleApplied =>
        LET sku == SkuGiven(RuleValues, IsNonEmpty) IN
        /\ lookups = << >>
        /\ ret.out = IF \/ sku = << >>
                        \/ "location" \notin DOMAIN RuleValues
                        \/ upper(sku[1]) \notin DOMAIN PlanPrices
                     THEN Ok(None)
                     ELSE Ok(Float(PlanPrices[upper(sku[1])]))

\* a plan whose sku block has size B1 and name B2 costs the B1 price
C21_Witness ==
    /\ PlanRuleApplied
    /\ "sku_name" \notin DOMAIN RuleValues
    /\ "sku" \in DOMAIN RuleValues
    /\ RuleValues["sku"] = JDict([size |-> "B1", name |-> "B2"])
    /\ ret.out = Ok(Float(54750000))

----------------------------------------------------------------------------
(* The loaded parser, checked under SpecPlan *)

\* C22: once load_plan has completed without error, get_resource_changes,
\* get_resource_count and get_resource_types do not fail with the not-loaded
\* error (ValueError), whatever document was loaded, the document without
\* entries included.
C22_LoadedParserAnswers ==
    plan_data # None /\ ret.op \in QueryOps => ret.out # Raise("ValueError")

----------------------------------------------------------------------------
(* The cache of the pricing client, checked under SpecPricing *)

\* the lookup a step has just appended to the history
LookupMade == lookups'[Len(lookups')]

\* C23: a lookup whose remote call raises or returns no items leaves the
\* price cache and its timestamps as they were, and so does a lookup that
\* makes no remote call (answered from the static table or from an unexpired
\* cache entry).
C23_OnlySuccessfulRemoteCallsWrite ==
    [][/\ Len(lookups') = Len(lookups) + 1
       /\ \/ ~LookupMade.remote
          \/ LookupMade.resp \in {"raise", "empty"}
       => UNCHANGED <<cache, cache_timestamps>>]_vars

\* a query was cached, expired, and its second remote call raised: the old
\* quote and its old timestamp are still there
C23_Witness ==
    /\ Len(lookups) = 2
    /\ lookups[1].resp = "items"
    /\ lookups[2].filters = lookups[1].filters
    /\ lookups[2].remote /\ lookups[2].resp = "raise"
    /\ ~lookups[2].after_clear
    /\ cache_key(lookups[1].filters) \in DOMAIN cache
    /\ cache[cache_key(lookups[1].filters)] = lookups[1].item
    /\ cache_timestamps[cache_key(lookups[1].filters)] = lookups[1].t

\* C25: the price cache and the timestamp map always have the same keys:
\* every cached quote has a timestamp and every timestamp belongs to a
\* cached quote.
C25_CacheAndTimestampsShareKeys ==
    DOMAIN cache = DOMAIN cache_timestamps

\* a quote was cached, the cache was cleared, and another query was cached:
\* both maps hold exactly the second query
C25_Witness ==
    /\ Len(lookups) = 2
    /\ lookups[1].resp = "items"
    /\ lookups[2].after_clear /\ lookups[2].resp = "items"
    /\ lookups[2].filters # lookups[1].filters
    /\ DOMAIN cache = {cache_key(lookups[2].filters)}
    /\ DOMAIN cache_timestamps = {cache_key(lookups[2].filters)}

----------------------------------------------------------------------------
(* The calculator called repeatedly: same plan file, same pricing service,
   while time passes and the cache may be cleared between the calls *)

RepeatKinds ==
    {VmRemoteKind, VmOsDiskKind, StorageRemoteKind, DiskNullSizeKind,
     KeyVaultKind}

RepeatChanges == {<<kind, <<"create">>>> : kind \in RepeatKinds}

\* a calculator on some plan file, against some pricing service
InitRepeat ==
    /\ plan_file \in {MissingFile, JsonFile(EmptyDict)}
                     \cup {JsonFile(doc) : doc \in PlanDocs(RepeatChanges)}
    /\ plan_data = None
    /\ cost_threshold = None
    /\ cache = EmptyDict
    /\ cache_timestamps = EmptyDict
    /\ now = 0
    /\ ret = NoCall
    /\ lookups = << >>
    /\ cleared = FALSE
    /\ breakdown = None
    /\ trace = << >>
    /\ pricing_api \in [ServiceNames -> CalcResponses]

NextRepeat ==
    \/ CalculateCosts
    \/ Tick
    \/ ClearCache

SpecRepeat == InitRepeat /\ [][NextRepeat]_vars

\* C24: with the plan file and the answers of the pricing service unchanged,
\* a call of calculate_costs returns what the call before it returned: the
\* same resources in the same order, the same unknown list and the same
\* total (or the same error), however much time passed and whether or not
\* the cache was cleared in between.
C24_RepeatedCallsAgree ==
    [][ret'.op = "calculate_costs" /\ now' = now =>
          /\ breakdown # None => ret'.out = Ok(breakdown)
          /\ ret.op = "calculate_costs" => ret'.out = ret.out]_vars

\* a call whose first lookup was answered from the cache an earlier call
\* filled, returning a priced resource
C24_Witness ==
    /\ ret.op = "calculate_costs" /\ ret.out.tag = "ok"
    /\ lookups # << >>
    /\ ~lookups[1].remote /\ ~lookups[1].static
    /\ ret.out.v.resources # << >>
    /\ ret.out.v.total_monthly_cost > 0

====
